---- MODULE Spec2Model ----
(***************************************************************************)
(* Transdom shipping backend (FastAPI + MongoDB): the order sequencer, the *)
(* order lifecycle, the activity ledger and the rate table store, as the   *)
(* handlers of routes.py drive the collections users, admins, counters,    *)
(* orders, order_logs and shipping_rates.                                  *)
(*                                                                         *)
(* Strings that the code converts (str.lower, str.upper, f-strings, the    *)
(* e-mail regex) are sequences of one-character strings, so a conversion   *)
(* is computed character by character.                                     *)
(***************************************************************************)
EXTENDS Integers, Sequences, FiniteSets, Bags, TLC

\* ------------------------------------------------------------------ bounds
\* make_order requests that can be in flight at the same time
NumProcs == 2
\* the order counter is not incremented beyond this value
MaxSeq == 2
\* the UTC dates datetime.utcnow() can report are the days 0..MaxDay
MaxDay == 0
\* entries the activity ledger can hold
MaxLogs == 1

\* add_rates requests that can be in flight at the same time
NumRateProcs == 1
\* signup and admin_signup requests that can be in flight at the same time
NumSignupProcs == 2

Procs == 1..NumProcs

RateProcs == 1..NumRateProcs

SignupProcs == 1..NumSignupProcs

Days == 0..MaxDay

\* ----------------------------------------------------------------- strings
UpperLetters ==
    <<"A","B","C","D","E","F","G","H","I","J","K","L","M",
      "N","O","P","Q","R","S","T","U","V","W","X","Y","Z">>

LowerLetters ==
    <<"a","b","c","d","e","f","g","h","i","j","k","l","m",
      "n","o","p","q","r","s","t","u","v","w","x","y","z">>

DigitChars ==
    <<"0","1","2","3","4","5","6","7","8","9">>

Range(f) == {f[i] : i \in DOMAIN f}

\* str.lower() on one character
LowerChar(c) ==
    IF c \in Range(UpperLetters)
    THEN LowerLetters[CHOOSE i \in DOMAIN UpperLetters : UpperLetters[i] = c]
    ELSE c

\* str.upper() on one character
UpperChar(c) ==
    IF c \in Range(LowerLetters)
    THEN UpperLetters[CHOOSE i \in DOMAIN LowerLetters : LowerLetters[i] = c]
    ELSE c

\* str.lower()
Lower(s) == [i \in DOMAIN s |-> LowerChar(s[i])]

\* str.upper()
Upper(s) == [i \in DOMAIN s |-> UpperChar(s[i])]

\* str(n) for a non-negative integer, as the f-string of make_order formats it
RECURSIVE IntStr(_)
IntStr(n) ==
    IF n < 10 THEN <<DigitChars[n + 1]>>
    ELSE IntStr(n \div 10) \o <<DigitChars[(n % 10) + 1]>>

\* datetime.utcnow().strftime("%Y%m%d") when the wall clock reads day d (the
\* days of one month)
DateStr(d) ==
    <<"2","0","2","6","0","1">>
        \o <<DigitChars[((d + 1) \div 10) + 1], DigitChars[((d + 1) % 10) + 1]>>

OrderPrefix == <<"t","r","a","n","s","d","o","m","_","o","r","d","e","r">>

\* f"transdom_order{order_num}_{date_str}"
OrderNo(order_num, d) == OrderPrefix \o IntStr(order_num) \o <<"_">> \o DateStr(d)

\* --------------------------------------------------------------- e-mails
LocalChars ==
    Range(UpperLetters) \cup Range(LowerLetters) \cup Range(DigitChars)
        \cup {".", "_", "%", "+", "-"}

DomainChars ==
    Range(UpperLetters) \cup Range(LowerLetters) \cup Range(DigitChars) \cup {".", "-"}

LetterChars == Range(UpperLetters) \cup Range(LowerLetters)

AllIn(s, lo, hi, chars) == \A k \in lo..hi : s[k] \in chars

\* the pattern ^[a-zA-Z0-9._%+-]+@[a-zA-Z0-9.-]+\.[a-zA-Z]{2,}$ on s[1..n]
MatchesEmail(s, n) ==
    \E at \in 2..n : \E dot \in (at + 2)..(n - 2) :
        /\ s[at] = "@"
        /\ s[dot] = "."
        /\ AllIn(s, 1, at - 1, LocalChars)
        /\ AllIn(s, at + 1, dot - 1, DomainChars)
        /\ AllIn(s, dot + 1, n, LetterChars)

\* is_valid_email: re.match with $, which also matches before one final newline
is_valid_email(email) ==
    /\ Len(email) > 0
    /\ \/ MatchesEmail(email, Len(email))
       \/ /\ email[Len(email)] = "\n"
          /\ MatchesEmail(email, Len(email) - 1)

E_a == <<"a","@","x",".","i","o">>
E_B == <<"B","@","x",".","i","o">>
E_bad == <<"a","@","x">>

\* e-mails a signup payload can carry
SignupEmails == {E_B}

\* sender e-mails a make_order payload can carry
SenderEmails == {E_B, E_bad}

N_root == <<"r","o","o","t">>

\* names an admin signup payload can carry
AdminNames == {N_root}

\* --------------------------------------------------------------- statuses
S_pending == <<"p","e","n","d","i","n","g">>
S_approved == <<"a","p","p","r","o","v","e","d">>
S_rejected == <<"r","e","j","e","c","t","e","d">>
S_Rejected == <<"R","e","j","e","c","t","e","d">>
S_Pending == <<"P","e","n","d","i","n","g">>
S_shipped == <<"s","h","i","p","p","e","d">>

valid_statuses == {S_pending, S_approved, S_rejected}

\* status strings an approve_order payload can carry
StatusInputs == {S_Pending, S_approved, S_Rejected, S_shipped}

\* ------------------------------------------------------------------ state
VARIABLES
    users,           \* db["users"]: the bag of the stored e-mails
    admins,          \* db["admins"]: the bag of the stored names
    counters,        \* db["counters"]: the stored counter documents
    orders,          \* db["orders"]: the stored order documents
    next_id,         \* the ObjectId the next orders.insert_one generates
    order_logs,      \* db["order_logs"], in insertion order
    shipping_rates,  \* db["shipping_rates"], in insertion order
    req,             \* the make_order requests in flight, one per slot
    rate_req,        \* the add_rates requests in flight, one per slot
    signup_req,      \* the signup and admin_signup requests in flight
    minted,          \* every sequencer value handed out so far, in order, with
                     \* the order number made from it and the user it was for
    sent_emails,     \* the calls made to the e-mail service
    last             \* the most recent response of make_order or approve_order

vars ==
    <<users, admins, counters, orders, next_id, order_logs, shipping_rates,
      req, rate_req, signup_req, minted, sent_emails, last>>

\* everything that lives in the database
stored == <<users, admins, counters, orders, order_logs, shipping_rates>>

NoStr == <<>>

IdleReq ==
    [pc |-> "idle", user |-> NoStr, sender_email |-> NoStr, order_num |-> 0,
     order_no |-> NoStr, oid |-> NoStr]

IdleRateReq == [pc |-> "idle", rate |-> << >>, existing |-> FALSE]

IdleSignupReq == [pc |-> "idle", key |-> NoStr]

\* a response: the handler, its HTTP status code, and what it was about
Response(op, code, order_no, status, prev) ==
    [op |-> op, code |-> code, order_no |-> order_no, status |-> status, prev |-> prev]

\* the answer of a handler whose response the model does not keep
Answer(op, code) == UNCHANGED last

Init ==
    /\ users = EmptyBag
    /\ admins = EmptyBag
    /\ counters = {}
    /\ orders = {}
    /\ next_id = 1
    /\ order_logs = << >>
    /\ shipping_rates = << >>
    /\ req = [p \in Procs |-> IdleReq]
    /\ rate_req = [p \in RateProcs |-> IdleRateReq]
    /\ signup_req = [p \in SignupProcs |-> IdleSignupReq]
    /\ minted = << >>
    /\ sent_emails = << >>
    /\ last = Response("none", 0, NoStr, NoStr, NoStr)

\* -------------------------------------------------------------------- auth
\* the bearer tokens a caller can present, each named by its subject:
\* create_access_token signs one per signup or login, with the e-mail or the
\* admin name as its subject
Tokens == BagToSet(users) \cup BagToSet(admins)

\* a token that does not decode, or whose subject was never registered
BadToken == <<"x">>

\* get_current_user: the users document of the token's subject, if any
get_current_user(token) ==
    IF BagIn(Lower(token), users) THEN Lower(token) ELSE NoStr

\* get_current_admin without the lookup in admins: every subject is an admin
get_current_admin_unchecked(token) == token

\* get_current_admin: the admins document of the token's subject, if any
get_current_admin(token) ==
    IF BagIn(token, admins) THEN token ELSE NoStr

\* signup served with no other request between its find_one and its insert_one
Signup(email) ==
    /\ IF BagIn(Lower(email), users)
       THEN /\ Answer("signup", 400)
            /\ UNCHANGED users
       ELSE /\ users' = users (+) SetToBag({Lower(email)})
            /\ Answer("signup", 201)
    /\ UNCHANGED <<signup_req, admins, counters, orders, next_id, order_logs, shipping_rates,
                   req, rate_req, minted, sent_emails>>

\* admin_signup served with no other request between its find_one and its
\* insert_one
AdminSignup(name) ==
    /\ IF BagIn(name, admins)
       THEN /\ Answer("admin_signup", 400)
            /\ UNCHANGED admins
       ELSE /\ admins' = admins (+) SetToBag({name})
            /\ Answer("admin_signup", 201)
    /\ UNCHANGED <<signup_req, users, counters, orders, next_id, order_logs, shipping_rates,
                   req, rate_req, minted, sent_emails>>

\* signup up to its write: users.find_one({"email": email}) on the lowercase
\* e-mail, and 400 when it finds a document
SignupFind(p, email) ==
    /\ signup_req[p].pc = "idle"
    /\ IF BagIn(Lower(email), users)
       THEN /\ Answer("signup", 400)
            /\ UNCHANGED signup_req
       ELSE /\ signup_req' = [signup_req EXCEPT
                                ![p] = [pc |-> "insert_user", key |-> Lower(email)]]
            /\ UNCHANGED last
    /\ UNCHANGED <<users, admins, counters, orders, next_id, order_logs, shipping_rates,
                   req, rate_req, minted, sent_emails>>

\* users.insert_one(user_dict); when it raises, except Exception answers 500
SignupInsert(p, insert_ok) ==
    /\ signup_req[p].pc = "insert_user"
    /\ IF insert_ok
       THEN /\ users' = users (+) SetToBag({signup_req[p].key})
            /\ Answer("signup", 201)
       ELSE /\ UNCHANGED users
            /\ Answer("signup", 500)
    /\ signup_req' = [signup_req EXCEPT ![p] = IdleSignupReq]
    /\ UNCHANGED <<admins, counters, orders, next_id, order_logs, shipping_rates,
                   req, rate_req, minted, sent_emails>>

\* admin_signup up to its write: admins.find_one({"name": payload.name}), and
\* 400 when it finds a document
AdminSignupFind(p, name) ==
    /\ signup_req[p].pc = "idle"
    /\ IF BagIn(name, admins)
       THEN /\ Answer("admin_signup", 400)
            /\ UNCHANGED signup_req
       ELSE /\ signup_req' = [signup_req EXCEPT
                                ![p] = [pc |-> "insert_admin", key |-> name]]
            /\ UNCHANGED last
    /\ UNCHANGED <<users, admins, counters, orders, next_id, order_logs, shipping_rates,
                   req, rate_req, minted, sent_emails>>

\* admins.insert_one(admin_dict); when it raises, except Exception answers 500
AdminSignupInsert(p, insert_ok) ==
    /\ signup_req[p].pc = "insert_admin"
    /\ IF insert_ok
       THEN /\ admins' = admins (+) SetToBag({signup_req[p].key})
            /\ Answer("admin_signup", 201)
       ELSE /\ UNCHANGED admins
            /\ Answer("admin_signup", 500)
    /\ signup_req' = [signup_req EXCEPT ![p] = IdleSignupReq]
    /\ UNCHANGED <<users, counters, orders, next_id, order_logs, shipping_rates,
                   req, rate_req, minted, sent_emails>>

\* ---------------------------------------------------------- order sequencer
\* counter.find_one_and_update({"_id": "order_count"}, {"$inc": {"seq": 1}},
\* upsert=True): the collection after the update
IncOrderCount(cs) ==
    IF \E c \in cs : c.id = "order_count"
    THEN {IF c.id = "order_count" THEN [c EXCEPT !.seq = c.seq + 1] ELSE c : c \in cs}
    ELSE cs \cup {[id |-> "order_count", seq |-> 1]}

\* return_document=True: the document as it is after the update
ReturnedCountDoc(cs) == CHOOSE c \in IncOrderCount(cs) : c.id = "order_count"

\* the seq the counter document holds (0 while there is no document)
CounterSeq(cs) ==
    IF \E c \in cs : c.id = "order_count"
    THEN (CHOOSE c \in cs : c.id = "order_count").seq
    ELSE 0

SetReq(p, r) == req' = [req EXCEPT ![p] = r]

\* the response of a make_order that stops at its sender e-mail: the e-mail,
\* and whether the lookup of it in users could be done
Rejected(code, sender_email, lookup_ok) ==
    [op |-> "make_order", code |-> code, order_no |-> NoStr, status |-> NoStr,
     prev |-> NoStr, sender_email |-> sender_email, lookup_ok |-> lookup_ok]

\* make_order up to its first write: get_current_user, is_valid_email and
\* email_exists_in_db, which only read the users collection
\* email_exists_in_db: whether the lowercase e-mail is in users; False when the
\* lookup raises
email_exists_in_db(email, lookup_ok) == lookup_ok /\ BagIn(Lower(email), users)

\* the counter taken before the sender e-mail is looked at
MakeOrderStartCountFirst(p, token, sender_email) ==
    /\ req[p].pc = "idle"
    /\ CounterSeq(counters) < MaxSeq
    /\ LET user == get_current_user(token)
       IN  IF user = NoStr
           THEN /\ last' = Response("make_order", 401, NoStr, NoStr, NoStr)
                /\ UNCHANGED <<req, counters>>
           ELSE /\ counters' = IncOrderCount(counters)
                /\ IF ~is_valid_email(sender_email)
                   THEN /\ last' = Rejected(400, sender_email, TRUE)
                        /\ UNCHANGED req
                   ELSE \E lookup_ok \in BOOLEAN :
                        IF ~email_exists_in_db(sender_email, lookup_ok)
                        THEN /\ last' = Rejected(404, sender_email, lookup_ok)
                             /\ UNCHANGED req
                        ELSE /\ SetReq(p, [IdleReq EXCEPT !.pc = "inc", !.user = user,
                                                         !.sender_email = sender_email])
                             /\ UNCHANGED last
    /\ UNCHANGED <<signup_req, users, admins, orders, next_id, order_logs,
                   shipping_rates, rate_req, minted, sent_emails>>

MakeOrderStart(p, token, sender_email) ==
    /\ req[p].pc = "idle"
    /\ LET user == get_current_user(token)
       IN  IF user = NoStr
           THEN /\ last' = Response("make_order", 401, NoStr, NoStr, NoStr)
                /\ UNCHANGED req
           ELSE IF ~is_valid_email(sender_email)
           THEN /\ last' = Rejected(400, sender_email, TRUE)
                /\ UNCHANGED req
           ELSE \E lookup_ok \in BOOLEAN :
                IF ~email_exists_in_db(sender_email, lookup_ok)
                THEN /\ last' = Rejected(404, sender_email, lookup_ok)
                     /\ UNCHANGED req
                ELSE /\ SetReq(p, [IdleReq EXCEPT !.pc = "inc", !.user = user,
                                                 !.sender_email = sender_email])
                     /\ UNCHANGED last
    /\ UNCHANGED <<signup_req, users, admins, counters, orders, next_id, order_logs,
                   shipping_rates, rate_req, minted, sent_emails>>

\* the counter read with find_one and written back with update_one: the value
\* read may predate the increment of a request that is still in flight
MakeOrderIncReadThenWrite(p, utcnow) ==
    /\ req[p].pc = "inc"
    /\ CounterSeq(counters) < MaxSeq
    /\ \E seen \in {CounterSeq(counters)} \cup
                    {req[q].order_num - 1 : q \in {r \in Procs : req[r].pc = "insert"}} :
        LET order_num == seen + 1
            order_no == OrderNo(order_num, utcnow)
        IN  /\ counters' = {[id |-> "order_count", seq |-> order_num]}
            /\ SetReq(p, [req[p] EXCEPT !.pc = "insert", !.order_num = order_num,
                                        !.order_no = order_no])
            /\ minted' = Append(minted, [seq |-> order_num, order_no |-> order_no,
                                         user |-> req[p].user])
    /\ UNCHANGED <<signup_req, users, admins, orders, next_id, order_logs, shipping_rates,
                   rate_req, sent_emails, last>>

\* the find-and-increment on the counter, and the order number made from it
MakeOrderInc(p, utcnow) ==
    /\ req[p].pc = "inc"
    /\ CounterSeq(counters) < MaxSeq
    /\ LET count_doc == ReturnedCountDoc(counters)
           \* count_doc.get("seq", 1): $inc leaves a seq in every document
           order_num == count_doc.seq
           order_no == OrderNo(order_num, utcnow)
       IN  /\ counters' = IncOrderCount(counters)
           /\ SetReq(p, [req[p] EXCEPT !.pc = "insert", !.order_num = order_num,
                                       !.order_no = order_no])
           /\ minted' = Append(minted, [seq |-> order_num, order_no |-> order_no,
                                         user |-> req[p].user])
    /\ UNCHANGED <<signup_req, users, admins, orders, next_id, order_logs, shipping_rates,
                   rate_req, sent_emails, last>>

\* the find-and-increment raises and the handler goes on with the default of
\* count_doc.get("seq", 1)
MakeOrderIncFallback(p) ==
    /\ req[p].pc = "inc"
    /\ SetReq(p, [req[p] EXCEPT !.pc = "insert", !.order_num = 1,
                                !.order_no = OrderNo(1, 0)])
    /\ UNCHANGED <<signup_req, users, admins, counters, orders, next_id, order_logs,
                   shipping_rates, rate_req, minted, sent_emails, last>>

\* the find-and-increment raises: except Exception answers 500
MakeOrderIncFail(p) ==
    /\ req[p].pc = "inc"
    /\ SetReq(p, IdleReq)
    /\ last' = Response("make_order", 500, NoStr, NoStr, NoStr)
    /\ UNCHANGED <<signup_req, users, admins, counters, orders, next_id, order_logs,
                   shipping_rates, rate_req, minted, sent_emails>>

\* the order document built with a status of its own
OrderDictCreated(oid, order_no, sender_email) ==
    [id |-> oid, order_no |-> order_no, status |-> <<"c","r","e","a","t","e","d">>,
     sender_email |-> Lower(sender_email)]

\* the order document of make_order
OrderDict(oid, order_no, sender_email) ==
    [id |-> oid, order_no |-> order_no, status |-> S_pending,
     sender_email |-> Lower(sender_email)]

\* orders.insert_one(order_dict)
MakeOrderInsert(p) ==
    /\ req[p].pc = "insert"
    /\ LET oid == IntStr(next_id)
       IN  /\ orders' = orders \cup {OrderDict(oid, req[p].order_no, req[p].sender_email)}
           /\ SetReq(p, [req[p] EXCEPT !.pc = "fetch", !.oid = oid])
    /\ next_id' = next_id + 1
    /\ UNCHANGED <<signup_req, users, admins, counters, order_logs, shipping_rates,
                   rate_req, minted, sent_emails, last>>

\* orders.insert_one raises and the handler gives the number back to the counter
MakeOrderInsertFailRollback(p) ==
    /\ req[p].pc = "insert"
    /\ SetReq(p, IdleReq)
    /\ counters' = {[c EXCEPT !.seq = c.seq - 1] : c \in counters}
    /\ last' = Response("make_order", 500, NoStr, NoStr, NoStr)
    /\ UNCHANGED <<signup_req, users, admins, orders, next_id, order_logs,
                   shipping_rates, rate_req, minted, sent_emails>>

\* orders.insert_one raises: nothing is stored, except Exception answers 500
MakeOrderInsertFail(p) ==
    /\ req[p].pc = "insert"
    /\ SetReq(p, IdleReq)
    /\ last' = Response("make_order", 500, NoStr, NoStr, NoStr)
    /\ UNCHANGED <<signup_req, users, admins, counters, orders, next_id, order_logs,
                   shipping_rates, rate_req, minted, sent_emails>>

\* orders.find_one({"_id": result.inserted_id}) and the response; the lookup
\* finds nothing when the order was deleted meanwhile, and order["_id"] raises
MakeOrderFetch(p, fetch_ok) ==
    /\ req[p].pc = "fetch"
    /\ LET found == {o \in orders : o.id = req[p].oid}
       IN  IF fetch_ok /\ found # {}
           THEN last' = Response("make_order", 201, NoStr, NoStr, NoStr)
           ELSE last' = Response("make_order", 500, NoStr, NoStr, NoStr)
    /\ SetReq(p, IdleReq)
    /\ UNCHANGED <<signup_req, users, admins, counters, orders, next_id, order_logs,
                   shipping_rates, rate_req, minted, sent_emails>>

\* ------------------------------------------------------------ order lifecycle
BogusOrderNo == OrderPrefix \o <<"0">>

\* order numbers a caller can name: every one handed out so far, and one that
\* was never handed out
OrderNoInputs == {m.order_no : m \in Range(minted)} \cup {BogusOrderNo}

\* payload.status.lower() not in valid_statuses
StatusRejected(status) == Lower(status) \notin valid_statuses

\* the update written without .lower()
SetStatusRaw(o, status) == [o EXCEPT !.status = status]

\* the update applied to pending orders only
SetStatusIfPending(o, status) ==
    IF o.status = S_pending THEN [o EXCEPT !.status = Lower(status)] ELSE o

\* {"$set": {"status": payload.status.lower()}} on one order document
SetStatus(o, status) == [o EXCEPT !.status = Lower(status)]

\* the documents the filter {"order_no": payload.order_no} matches
MatchingOrders(os, order_no) == {o \in os : o.order_no = order_no}

\* what the filter matched when it matched nothing
NoOrder == [id |-> NoStr, order_no |-> NoStr, status |-> NoStr, sender_email |-> NoStr]

\* the update written to every stored order, as update_many with an empty
\* filter would
UpdateManyStatus(os, order_no, o, status) ==
    IF o \in os THEN {SetStatus(x, status) : x \in os} ELSE os

\* find_one_and_update called with upsert=True
FindOneAndUpdateStatusUpsert(os, order_no, o, status) ==
    IF o \in os
    THEN (os \ {o}) \cup {[o EXCEPT !.status = Lower(status)]}
    ELSE os \cup {[NoOrder EXCEPT !.order_no = order_no, !.status = Lower(status)]}

\* orders.find_one_and_update({"order_no": order_no}, update) where the filter
\* matched the document o; with no match (o is NoOrder) nothing is written
FindOneAndUpdateStatus(os, order_no, o, status) ==
    IF o \in os THEN (os \ {o}) \cup {SetStatus(o, status)} ELSE os

\* approve_order
ApproveOrder(token, order_no, status) ==
    /\ IF get_current_admin(token) = NoStr
       THEN /\ last' = Response("approve_order", 401, NoStr, NoStr, NoStr)
            /\ UNCHANGED orders
       ELSE IF StatusRejected(status)
       THEN /\ last' = Response("approve_order", 400, NoStr, status, NoStr)
            /\ UNCHANGED orders
       ELSE \/ \* find_one_and_update raises: except Exception answers 500
               /\ last' = Response("approve_order", 500, NoStr, NoStr, NoStr)
               /\ UNCHANGED orders
            \/ IF MatchingOrders(orders, order_no) = {}
               THEN /\ last' = Response("approve_order", 404, order_no, status, NoStr)
                    /\ orders' = FindOneAndUpdateStatus(orders, order_no, NoOrder, status)
               ELSE \E o \in MatchingOrders(orders, order_no) :
                    /\ orders' = FindOneAndUpdateStatus(orders, order_no, o, status)
                    /\ last' = Response("approve_order", 200, order_no, status, o.status)
    /\ UNCHANGED <<signup_req, users, admins, counters, next_id, order_logs, shipping_rates,
                   req, rate_req, minted, sent_emails>>

\* delete_all_orders that also clears the order_logs collection
DeleteAllOrdersAndLogs(token) ==
    /\ IF get_current_admin(token) = NoStr \/ Cardinality(orders) = 0
       THEN UNCHANGED <<orders, order_logs>>
       ELSE /\ orders' = {}
            /\ order_logs' = << >>
    /\ UNCHANGED <<signup_req, users, admins, counters, next_id, shipping_rates,
                   req, rate_req, minted, sent_emails, last>>

\* delete_all_orders that also clears the counters collection
DeleteAllOrdersAndCounter(token) ==
    /\ IF get_current_admin(token) = NoStr \/ Cardinality(orders) = 0
       THEN UNCHANGED <<orders, counters>>
       ELSE /\ orders' = {}
            /\ counters' = {}
    /\ UNCHANGED <<signup_req, users, admins, next_id, order_logs, shipping_rates,
                   req, rate_req, minted, sent_emails, last>>

\* delete_all_orders
DeleteAllOrders(token) ==
    /\ IF get_current_admin(token) = NoStr
       THEN /\ Answer("delete_all_orders", 401)
            /\ UNCHANGED orders
       ELSE IF Cardinality(orders) = 0
       THEN /\ Answer("delete_all_orders", 404)
            /\ UNCHANGED orders
       ELSE /\ orders' = {}
            /\ Answer("delete_all_orders", 200)
    /\ UNCHANGED <<signup_req, users, admins, counters, next_id, order_logs, shipping_rates,
                   req, rate_req, minted, sent_emails>>

HexChars == Range(DigitChars) \cup {"a","b","c","d","e","f","A","B","C","D","E","F"}

\* ObjectId.is_valid on the (abbreviated) id strings of the model
ObjectIdIsValid(order_id) == Len(order_id) > 0 /\ AllIn(order_id, 1, Len(order_id), HexChars)

BadOrderId == <<"z">>

\* ids a caller can name: every id generated so far, the next one, a malformed one
OrderIdInputs == {IntStr(i) : i \in 1..next_id} \cup {BadOrderId}

\* delete_order_by_id
DeleteOrderById(token, order_id) ==
    /\ IF get_current_admin(token) = NoStr
       THEN /\ Answer("delete_order_by_id", 401)
            /\ UNCHANGED orders
       ELSE IF ~ObjectIdIsValid(order_id)
       THEN /\ Answer("delete_order_by_id", 400)
            /\ UNCHANGED orders
       ELSE IF {o \in orders : o.id = order_id} = {}
       THEN /\ Answer("delete_order_by_id", 404)
            /\ UNCHANGED orders
       ELSE LET order == CHOOSE o \in orders : o.id = order_id
            IN  /\ orders' = orders \ {order}
                /\ Answer("delete_order_by_id", 200)
    /\ UNCHANGED <<signup_req, users, admins, counters, next_id, order_logs, shipping_rates,
                   req, rate_req, minted, sent_emails>>

\* ---------------------------------------------------------------- filters
\* a filter matches a document that has every field the filter names, with the
\* value the filter gives it
Matches(doc, filter) ==
    \A f \in DOMAIN filter : f \in DOMAIN doc /\ doc[f] = filter[f]

\* collection.find(filter), for a collection kept as a set
Find(coll, filter) == {doc \in coll : Matches(doc, filter)}

\* ------------------------------------------------------------ activity ledger
\* order numbers a caller logs activity for
LogOrderNos == {OrderNo(1, 0)}

\* activity types a caller can name
ActivityTypes == {"status_changed"}

\* the log_entry of log_order_activity
LogEntry(order_no, activity_type, user_email, utcnow) ==
    [order_no |-> order_no, activity_type |-> activity_type,
     user_email |-> user_email, timestamp |-> utcnow]

\* log_order_activity
LogOrderActivity(token, order_no, activity_type, utcnow) ==
    /\ LET user == get_current_user(token)
       IN  IF user = NoStr
           THEN /\ Answer("log_order_activity", 401)
                /\ UNCHANGED order_logs
           ELSE /\ order_logs' = Append(order_logs, LogEntry(order_no, activity_type, user, utcnow))
                /\ Answer("log_order_activity", 201)
    /\ UNCHANGED <<signup_req, users, admins, counters, orders, next_id, shipping_rates,
                   req, rate_req, minted, sent_emails>>

\* the response of a ledger query: what was asked, by whom, and the page
LogsResponse(op, code, token, order_no, logs) ==
    [op |-> op, code |-> code, token |-> token, order_no |-> order_no,
     logs |-> logs, total |-> Len(logs)]

\* the positions of the ledger entries a filter {"order_no": order_no} matches
MatchingLogs(logs, order_no) == {i \in DOMAIN logs : logs[i].order_no = order_no}

\* the matching entries in the order the collection stores them
FindOrderLogsUnsorted(logs, order_no) ==
    {SelectSeq(logs, LAMBDA e : e.order_no = order_no)}

\* order_logs.find({"order_no": order_no}).sort("timestamp", -1): every order
\* the cursor can return the matching entries in, entries of one timestamp
\* coming in any order
FindOrderLogs(logs, order_no) ==
    LET idx == MatchingLogs(logs, order_no)
        n == Cardinality(idx)
        orderings ==
            {f \in [1..n -> idx] :
                /\ \A k, l \in 1..n : k # l => f[k] # f[l]
                /\ \A k, l \in 1..n :
                        k < l => logs[f[k]].timestamp >= logs[f[l]].timestamp}
    IN  {[k \in 1..n |-> logs[f[k]]] : f \in orderings}

\* admin_get_order_logs; find_ok is whether the cursor could be read
AdminGetOrderLogs(token, order_no, find_ok) ==
    /\ LET admin == get_current_admin(token)
           op == "admin_get_order_logs"
       IN  IF admin = NoStr
           THEN last' = LogsResponse(op, 401, token, order_no, << >>)
           ELSE IF ~find_ok
           THEN last' = LogsResponse(op, 500, token, order_no, << >>)
           ELSE \E logs \in FindOrderLogs(order_logs, order_no) :
                    last' = LogsResponse(op, 200, token, order_no, logs)
    /\ UNCHANGED <<signup_req, users, admins, counters, orders, next_id, order_logs,
                   shipping_rates, req, rate_req, minted, sent_emails>>

\* get_order_logs: the ownership lookup, then the query of admin_get_order_logs
GetOrderLogs(token, order_no, find_ok) ==
    /\ LET user == get_current_user(token)
           op == "get_order_logs"
       IN  IF user = NoStr
           THEN last' = LogsResponse(op, 401, token, order_no, << >>)
           ELSE IF ~find_ok
           THEN last' = LogsResponse(op, 500, token, order_no, << >>)
           ELSE IF Find(orders, [order_no |-> order_no, email |-> Lower(user)]) = {}
           THEN last' = LogsResponse(op, 404, token, order_no, << >>)
           ELSE \E logs \in FindOrderLogs(order_logs, order_no) :
                    last' = LogsResponse(op, 200, token, order_no, logs)
    /\ UNCHANGED <<signup_req, users, admins, counters, orders, next_id, order_logs,
                   shipping_rates, req, rate_req, minted, sent_emails>>

\* ------------------------------------------------------------ shipment reads
\* the response of a shipment read: what was asked, by whom, and the orders
\* it returns (their order by date_created is left out)
ShipmentsResponse(op, code, token, order_no, shipments) ==
    [op |-> op, code |-> code, token |-> token, order_no |-> order_no,
     shipments |-> shipments]

\* the filter of the stand-alone get_user_shipments of shipments-endpoint-fixed.py
UserShipmentsFilterEmail(user_email) == [email |-> Lower(user_email)]

\* the filter of get_user_shipments: {"sender_email": user_email.lower()}
UserShipmentsFilter(user_email) == [sender_email |-> Lower(user_email)]

\* get_user_shipments
GetUserShipments(token, find_ok) ==
    /\ LET user == get_current_user(token)
           op == "get_user_shipments"
       IN  IF user = NoStr
           THEN last' = ShipmentsResponse(op, 401, token, NoStr, {})
           ELSE IF ~find_ok
           THEN last' = ShipmentsResponse(op, 500, token, NoStr, {})
           ELSE last' = ShipmentsResponse(op, 200, token, NoStr,
                                          Find(orders, UserShipmentsFilter(user)))
    /\ UNCHANGED <<signup_req, users, admins, counters, orders, next_id, order_logs,
                   shipping_rates, req, rate_req, minted, sent_emails>>

\* get_shipment_by_order_no: find_one returns one of the matching orders
GetShipmentByOrderNo(token, order_no, find_ok) ==
    /\ LET user == get_current_user(token)
           op == "get_shipment_by_order_no"
           found == Find(orders, [order_no |-> order_no, sender_email |-> Lower(user)])
       IN  IF user = NoStr
           THEN last' = ShipmentsResponse(op, 401, token, order_no, {})
           ELSE IF ~find_ok
           THEN last' = ShipmentsResponse(op, 500, token, order_no, {})
           ELSE IF found = {}
           THEN last' = ShipmentsResponse(op, 404, token, order_no, {})
           ELSE \E order \in found :
                    last' = ShipmentsResponse(op, 200, token, order_no, {order})
    /\ UNCHANGED <<signup_req, users, admins, counters, orders, next_id, order_logs,
                   shipping_rates, req, rate_req, minted, sent_emails>>

\* the filter get_all_shipments builds from its query parameters, where an
\* absent parameter is the empty string
AllShipmentsQuery(status_filter, email) ==
    IF status_filter # NoStr /\ email # NoStr
    THEN [status |-> Lower(status_filter), sender_email |-> Lower(email)]
    ELSE IF status_filter # NoStr THEN [status |-> Lower(status_filter)]
    ELSE IF email # NoStr THEN [sender_email |-> Lower(email)]
    ELSE << >>

\* get_all_shipments, with its default limit of 100, which is more than the
\* orders the collection holds here
GetAllShipments(token, status_filter, email, find_ok) ==
    /\ LET admin == get_current_admin(token)
           op == "get_all_shipments"
       IN  IF admin = NoStr
           THEN last' = ShipmentsResponse(op, 401, token, NoStr, {})
           ELSE IF ~find_ok
           THEN last' = ShipmentsResponse(op, 500, token, NoStr, {})
           ELSE last' = ShipmentsResponse(op, 200, token, NoStr,
                                          Find(orders, AllShipmentsQuery(status_filter, email)))
    /\ UNCHANGED <<signup_req, users, admins, counters, orders, next_id, order_logs,
                   shipping_rates, req, rate_req, minted, sent_emails>>

\* ----------------------------------------------------------- rate table store
Z_uk == <<"u","k">>

Z_US == <<"U","S">>

Z_fr == <<"f","r">>

\* RateEntry.price is Union[float, str]: a number, held in hundredths of a naira,
\* or a string, kept as the request gave it
PriceFloat(n) == [kind |-> "float", num |-> n, str |-> NoStr]

PriceStr(s) == [kind |-> "str", num |-> 0, str |-> s]

\* RateEntry
Tier(weight, price) == [weight |-> weight, price |-> price]

Tiers_one == <<Tier(2, PriceFloat(8537848))>>

Tiers_two == <<Tier(3, PriceFloat(10241007)), Tier(2, PriceFloat(8537848))>>

Tiers_three ==
    <<Tier(3, PriceFloat(10241007)), Tier(4, PriceFloat(12637573)),
      Tier(2, PriceFloat(8537848))>>

\* two entries of the same weight
Tiers_dup == <<Tier(2, PriceFloat(8537848)), Tier(2, PriceFloat(99900))>>

\* a price sent as a formatted string
Tiers_str == <<Tier(2, PriceStr(<<"8","5",",","3","7","8",".","4","8">>))>>

\* rates: List[RateEntry] admits the empty list
Tiers_none == << >>

\* ShippingRate
ShippingRate(zone, currency, unit, rates) ==
    [zone |-> zone, currency |-> currency, unit |-> unit, rates |-> rates]

\* the ShippingRate payloads an add_rates call can carry
RatePayloads ==
    {[zone |-> Z_uk, currency |-> "NGN", unit |-> "kg", rates |-> t] :
        t \in {Tiers_one}}

\* collection.find_one({"zone": zone}): the position of the first match, 0 if none
FindZone(docs, zone) ==
    IF \E i \in DOMAIN docs : docs[i].zone = zone
    THEN CHOOSE i \in DOMAIN docs :
            /\ docs[i].zone = zone
            /\ \A j \in DOMAIN docs : docs[j].zone = zone => i <= j
    ELSE 0

\* ---- format_price: f"{price:,.2f}"
\* the digits of n, at least width of them
PadDigits(n, width) ==
    LET digits == IntStr(n)
    IN  [i \in 1..(width - Len(digits)) |-> "0"] \o digits

\* the thousands separator of the "," format option
RECURSIVE Grouped(_)
Grouped(n) ==
    IF n < 1000
    THEN IntStr(n)
    ELSE Grouped(n \div 1000) \o <<",">> \o PadDigits(n % 1000, 3)

\* the format code f applied to a str raises ValueError
FormatRaises(price) == price.kind = "str"

\* format_price of a number
format_price(price) ==
    LET n == price.num
        abs == IF n < 0 THEN 0 - n ELSE n
    IN  (IF n < 0 THEN <<"-">> ELSE << >>)
            \o Grouped(abs \div 100) \o <<".">> \o PadDigits(abs % 100, 2)

\* the status code of a response that formats every price of rates: the
\* exception of format_price is answered 500
FormattedCode(rates, code) ==
    IF \E i \in DOMAIN rates : FormatRaises(rates[i].price) THEN 500 ELSE code

\* add_rates up to its write: get_current_admin, rate.zone.upper() and find_one
AddRatesFind(p, token, rate) ==
    /\ rate_req[p].pc = "idle"
    /\ IF get_current_admin(token) = NoStr
       THEN /\ Answer("add_rates", 401)
            /\ UNCHANGED rate_req
       ELSE LET rate_dict == [rate EXCEPT !.zone = Upper(rate.zone)]
            IN  /\ rate_req' = [rate_req EXCEPT ![p] =
                        [pc |-> "write", rate |-> rate_dict,
                         existing |-> FindZone(shipping_rates, rate_dict.zone) # 0]]
                /\ UNCHANGED last
    /\ UNCHANGED <<signup_req, users, admins, counters, orders, next_id, order_logs,
                   shipping_rates, req, minted, sent_emails>>

\* add_rates that inserts the payload whether or not find_one had found the zone
AddRatesWriteInsertOnly(p) ==
    /\ rate_req[p].pc = "write"
    /\ shipping_rates' = Append(shipping_rates, rate_req[p].rate)
    /\ rate_req' = [rate_req EXCEPT ![p] = IdleRateReq]
    /\ UNCHANGED <<signup_req, users, admins, counters, orders, next_id, order_logs,
                   req, minted, sent_emails, last>>

\* the status code add_rates answers with from its write on, for the payload
\* rate_dict and the collection docs: 400 'Failed to update rates' when the
\* update modified nothing, else 201 unless formatting the prices raises
AddRatesCode(docs, rate_dict, existing) ==
    LET i == FindZone(docs, rate_dict.zone)
    IN  IF existing /\ (i = 0 \/ docs[i] = rate_dict)
        THEN 400
        ELSE FormattedCode(rate_dict.rates, 201)

\* add_rates from its write on: update_one with $set when find_one had found the
\* zone (modified_count is 0 when the document already equals the payload),
\* insert_one otherwise
AddRatesWrite(p) ==
    /\ rate_req[p].pc = "write"
    /\ LET rate_dict == rate_req[p].rate
           i == FindZone(shipping_rates, rate_dict.zone)
           code == AddRatesCode(shipping_rates, rate_dict, rate_req[p].existing)
       IN  IF rate_req[p].existing
           THEN IF i = 0 \/ shipping_rates[i] = rate_dict
                THEN /\ Answer("add_rates", code)
                     /\ UNCHANGED shipping_rates
                ELSE /\ shipping_rates' = [shipping_rates EXCEPT ![i] = rate_dict]
                     /\ Answer("add_rates", code)
           ELSE /\ shipping_rates' = Append(shipping_rates, rate_dict)
                /\ Answer("add_rates", code)
    /\ rate_req' = [rate_req EXCEPT ![p] = IdleRateReq]
    /\ UNCHANGED <<signup_req, users, admins, counters, orders, next_id, order_logs,
                   req, minted, sent_emails>>

\* ------------------------------------------------------------ price resolver
\* one step of sorted(): r goes behind every entry whose weight is not greater
\* (the sort is stable)
InsertByWeight(sorted, r) ==
    LET k == Cardinality({i \in DOMAIN sorted : sorted[i].weight <= r.weight})
    IN  SubSeq(sorted, 1, k) \o <<r>> \o SubSeq(sorted, k + 1, Len(sorted))

\* sorted(rates, key=lambda x: x["weight"])
RECURSIVE SortedRates(_)
SortedRates(rates) ==
    IF rates = << >>
    THEN << >>
    ELSE InsertByWeight(SortedRates(SubSeq(rates, 1, Len(rates) - 1)), rates[Len(rates)])

\* the loop over sorted_rates and the fallback to sorted_rates[-1]; weight is
\* the requested weight in half kilograms, rate["weight"] is in kilograms
MatchedRate(sorted_rates, weight) ==
    LET fits == {i \in DOMAIN sorted_rates : 2 * sorted_rates[i].weight >= weight}
    IN  IF fits = {}
        THEN sorted_rates[Len(sorted_rates)]
        ELSE sorted_rates[CHOOSE i \in fits : \A j \in fits : i <= j]

\* a response of get_price_for_zone_weight, with the request it answers
PriceAnswer(code, zone, weight, matched_weight, price, currency) ==
    [op |-> "get_price_for_zone_weight", code |-> code, zone |-> zone,
     weight |-> weight, matched_weight |-> matched_weight, price |-> price,
     currency |-> currency]

\* zones a caller can ask a price for
ZoneInputs == {Z_uk, Z_US, Z_fr}

\* weights a caller can ask a price for, in half kilograms
WeightInputs == {0 - 1, 0, 1, 4, 5, 7, 9}

\* get_price_for_zone_weight with the zone looked up before the weight is checked
GetPriceZoneFirst(zone, weight) ==
    /\ LET i == FindZone(shipping_rates, Upper(zone))
       IN  IF i = 0 \/ shipping_rates[i].rates = << >>
           THEN last' = PriceAnswer(404, zone, weight, 0, NoStr, NoStr)
           ELSE IF weight <= 0
           THEN last' = PriceAnswer(400, zone, weight, 0, NoStr, NoStr)
           ELSE LET matched_rate == MatchedRate(SortedRates(shipping_rates[i].rates), weight)
                IN  IF FormatRaises(matched_rate.price)
                    THEN last' = PriceAnswer(500, zone, weight, 0, NoStr, NoStr)
                    ELSE last' = PriceAnswer(200, zone, weight, matched_rate.weight,
                                    format_price(matched_rate.price),
                                    shipping_rates[i].currency)
    /\ UNCHANGED <<signup_req, users, admins, counters, orders, next_id, order_logs,
                   shipping_rates, req, rate_req, minted, sent_emails>>

\* get_price_for_zone_weight
GetPriceForZoneWeight(zone, weight) ==
    /\ IF weight <= 0
       THEN last' = PriceAnswer(400, zone, weight, 0, NoStr, NoStr)
       ELSE LET zone_upper == Upper(zone)
                i == FindZone(shipping_rates, zone_upper)
            IN  IF i = 0
                THEN last' = PriceAnswer(404, zone, weight, 0, NoStr, NoStr)
                ELSE LET zone_doc == shipping_rates[i]
                         rates == zone_doc.rates
                     IN  IF rates = << >>
                         THEN last' = PriceAnswer(404, zone, weight, 0, NoStr, NoStr)
                         ELSE LET sorted_rates == SortedRates(rates)
                                  matched_rate == MatchedRate(sorted_rates, weight)
                              IN  IF FormatRaises(matched_rate.price)
                                  THEN last' = PriceAnswer(500, zone, weight, 0, NoStr, NoStr)
                                  ELSE last' = PriceAnswer(200, zone, weight,
                                                  matched_rate.weight,
                                                  format_price(matched_rate.price),
                                                  zone_doc.currency)
    /\ UNCHANGED <<signup_req, users, admins, counters, orders, next_id, order_logs,
                   shipping_rates, req, rate_req, minted, sent_emails>>

\* ------------------------------------------------------- insurance calculator
\* config.INSURANCE_RATE, in percent
INSURANCE_RATE == 2

\* config.MINIMUM_INSURANCE_FEE, in naira
MINIMUM_INSURANCE_FEE == 500

\* calculate_insurance_fee with the upper bound of every bracket excluded
calculate_insurance_fee_exclusive(shipment_value) ==
    IF shipment_value = 0 \/ shipment_value <= 0 THEN 5000
    ELSE IF shipment_value < 100000 THEN 5000
    ELSE IF shipment_value < 200000 THEN 7500
    ELSE IF shipment_value < 500000 THEN 10000
    ELSE IF shipment_value < 1000000 THEN 20000
    ELSE IF shipment_value < 2000000 THEN 30000
    ELSE IF shipment_value < 5000000 THEN 120000
    ELSE IF shipment_value < 10000000 THEN 240000
    ELSE 240000

\* calculate_insurance_fee; shipment_value and the fee are in naira
calculate_insurance_fee(shipment_value) ==
    \* not shipment_value or shipment_value <= 0
    IF shipment_value = 0 \/ shipment_value <= 0 THEN 5000
    ELSE IF shipment_value <= 100000 THEN 5000
    ELSE IF shipment_value <= 200000 THEN 7500
    ELSE IF shipment_value <= 500000 THEN 10000
    ELSE IF shipment_value <= 1000000 THEN 20000
    ELSE IF shipment_value <= 2000000 THEN 30000
    ELSE IF shipment_value <= 5000000 THEN 120000
    ELSE IF shipment_value <= 10000000 THEN 240000
    ELSE 240000

\* a result of calculate_insurance_fee, with the value it was computed for
InsuranceAnswer(shipment_value, fee) ==
    [op |-> "calculate_insurance_fee", shipment_value |-> shipment_value, fee |-> fee]

\* a call of calculate_insurance_fee
CalculateInsuranceFee(shipment_value) ==
    /\ last' = InsuranceAnswer(shipment_value, calculate_insurance_fee(shipment_value))
    /\ UNCHANGED <<signup_req, users, admins, counters, orders, next_id, order_logs,
                   shipping_rates, req, rate_req, minted, sent_emails>>

\* ------------------------------------------------------------- specification
Next ==
    \/ \E email \in SignupEmails : Signup(email)
    \/ \E name \in AdminNames : AdminSignup(name)
    \/ \E p \in Procs, token \in Tokens, sender_email \in SenderEmails :
            MakeOrderStart(p, token, sender_email)
    \/ \E p \in Procs, utcnow \in Days : MakeOrderInc(p, utcnow)
    \/ \E p \in Procs : MakeOrderIncFail(p)
    \/ \E p \in Procs : MakeOrderInsert(p)
    \/ \E p \in Procs : MakeOrderInsertFail(p)
    \/ \E p \in Procs, fetch_ok \in BOOLEAN : MakeOrderFetch(p, fetch_ok)
    \/ \E token \in Tokens, order_no \in OrderNoInputs, status \in StatusInputs :
            ApproveOrder(token, order_no, status)
    \/ \E token \in Tokens : DeleteAllOrders(token)
    \/ \E token \in Tokens, order_id \in OrderIdInputs : DeleteOrderById(token, order_id)
    \/ \E token \in Tokens, order_no \in LogOrderNos, activity_type \in ActivityTypes,
          utcnow \in Days :
            /\ Len(order_logs) < MaxLogs
            /\ LogOrderActivity(token, order_no, activity_type, utcnow)
    \/ \E p \in RateProcs, token \in Tokens, rate \in RatePayloads :
            AddRatesFind(p, token, rate)
    \/ \E p \in RateProcs : AddRatesWrite(p)

Spec == Init /\ [][Next]_vars

\* ---- the rate table store and the price resolver, one add_rates at a time
\* the payloads of add_rates: one zone with every kind of tier list, given in
\* lowercase, and a second zone
PricePayloads ==
    {ShippingRate(Z_uk, "NGN", "kg", t) :
        t \in {Tiers_one, Tiers_three, Tiers_dup, Tiers_str, Tiers_none}}
        \cup {ShippingRate(Z_US, "USD", "kg", Tiers_two)}

NextPrice ==
    \/ \E name \in AdminNames : AdminSignup(name)
    \/ \E p \in RateProcs, token \in Tokens, rate \in PricePayloads :
            AddRatesFind(p, token, rate)
    \/ \E p \in RateProcs : AddRatesWrite(p)
    \/ \E zone \in ZoneInputs, weight \in WeightInputs :
            GetPriceForZoneWeight(zone, weight)

SpecPrice == Init /\ [][NextPrice]_vars

\* ---- the rate table store under concurrent add_rates calls
\* add_rates requests that can be in flight at the same time
NumConcRateProcs == 2

ConcRateProcs == 1..NumConcRateProcs

ConcPayloads ==
    {ShippingRate(Z_uk, c, "kg", t) :
        c \in {"NGN", "USD"}, t \in {Tiers_one, Tiers_two, Tiers_dup}}
        \cup {ShippingRate(Z_US, "USD", "kg", Tiers_two)}

InitRates ==
    /\ users = EmptyBag
    /\ admins = EmptyBag
    /\ counters = {}
    /\ orders = {}
    /\ next_id = 1
    /\ order_logs = << >>
    /\ shipping_rates = << >>
    /\ req = [p \in Procs |-> IdleReq]
    /\ rate_req = [p \in ConcRateProcs |-> IdleRateReq]
    /\ signup_req = [p \in SignupProcs |-> IdleSignupReq]
    /\ minted = << >>
    /\ sent_emails = << >>
    /\ last = Response("none", 0, NoStr, NoStr, NoStr)

NextRates ==
    \/ \E name \in AdminNames : AdminSignup(name)
    \/ \E p \in ConcRateProcs, token \in Tokens, rate \in ConcPayloads :
            AddRatesFind(p, token, rate)
    \/ \E p \in ConcRateProcs : AddRatesWrite(p)

SpecRates == InitRates /\ [][NextRates]_vars

\* ---- the activity ledger and its admin query
\* entries the ledger can hold while it is queried
MaxLedger == 3
\* the instants datetime.utcnow() can report to log_order_activity: 0..MaxTime
MaxTime == 2

LedgerTimes == 0..MaxTime

\* order numbers activity is logged and queried for
LedgerOrderNos == {OrderNo(1, 0), OrderNo(2, 0)}

NextLedger ==
    \/ \E email \in SignupEmails : Signup(email)
    \/ \E name \in AdminNames : AdminSignup(name)
    \/ \E token \in Tokens, order_no \in LedgerOrderNos,
          activity_type \in ActivityTypes, utcnow \in LedgerTimes :
            /\ Len(order_logs) < MaxLedger
            /\ LogOrderActivity(token, order_no, activity_type, utcnow)
    \/ \E token \in Tokens, order_no \in LedgerOrderNos, find_ok \in BOOLEAN :
            AdminGetOrderLogs(token, order_no, find_ok)

SpecLedger == Init /\ [][NextLedger]_vars

\* ---- orders and what their senders can read of them
\* the make_order slot in use
ShipProcs == {1}

\* sender e-mails a make_order payload can carry: registered or not, and malformed
ShipSenders == {E_a, E_B, E_bad}

\* e-mails a signup payload can carry
ShipEmails == {E_a, E_B}

NextShipments ==
    \/ \E email \in ShipEmails : Signup(email)
    \/ \E p \in ShipProcs, token \in Tokens, sender_email \in ShipSenders :
            MakeOrderStart(p, token, sender_email)
    \/ \E p \in ShipProcs, utcnow \in Days : MakeOrderInc(p, utcnow)
    \/ \E p \in ShipProcs : MakeOrderIncFail(p)
    \/ \E p \in ShipProcs : MakeOrderInsert(p)
    \/ \E p \in ShipProcs : MakeOrderInsertFail(p)
    \/ \E p \in ShipProcs, fetch_ok \in BOOLEAN : MakeOrderFetch(p, fetch_ok)
    \/ \E token \in Tokens, order_no \in OrderNoInputs, find_ok \in BOOLEAN :
            GetOrderLogs(token, order_no, find_ok)
    \/ \E token \in Tokens, find_ok \in BOOLEAN : GetUserShipments(token, find_ok)
    \/ \E token \in Tokens, order_no \in OrderNoInputs, find_ok \in BOOLEAN :
            GetShipmentByOrderNo(token, order_no, find_ok)

SpecShipments == Init /\ [][NextShipments]_vars

\* ---- every operation, called with every kind of token
\* the tokens a caller can present: a user's, an admin's, and one that is neither
AuthTokens == {Lower(E_B), N_root, BadToken}

AuthProcs == {1}

\* status strings and filters of this specification
AuthStatuses == {S_approved}

StatusFilters == {NoStr, S_Pending}

EmailFilters == {NoStr, E_B}

NextAuth ==
    \/ \E email \in SignupEmails : Signup(email)
    \/ \E name \in AdminNames : AdminSignup(name)
    \/ \E p \in AuthProcs, token \in AuthTokens, sender_email \in SenderEmails :
            MakeOrderStart(p, token, sender_email)
    \/ \E p \in AuthProcs, utcnow \in Days : MakeOrderInc(p, utcnow)
    \/ \E p \in AuthProcs : MakeOrderIncFail(p)
    \/ \E p \in AuthProcs : MakeOrderInsert(p)
    \/ \E p \in AuthProcs : MakeOrderInsertFail(p)
    \/ \E p \in AuthProcs, fetch_ok \in BOOLEAN : MakeOrderFetch(p, fetch_ok)
    \/ \E token \in AuthTokens, order_no \in OrderNoInputs, status \in AuthStatuses :
            ApproveOrder(token, order_no, status)
    \/ \E token \in AuthTokens : DeleteAllOrders(token)
    \/ \E token \in AuthTokens, order_id \in OrderIdInputs : DeleteOrderById(token, order_id)
    \/ \E token \in AuthTokens, order_no \in LogOrderNos, activity_type \in ActivityTypes,
          utcnow \in Days :
            /\ Len(order_logs) < MaxLogs
            /\ LogOrderActivity(token, order_no, activity_type, utcnow)
    \/ \E p \in RateProcs, token \in AuthTokens, rate \in RatePayloads :
            AddRatesFind(p, token, rate)
    \/ \E p \in RateProcs : AddRatesWrite(p)
    \/ \E token \in AuthTokens, order_no \in LogOrderNos, find_ok \in BOOLEAN :
            AdminGetOrderLogs(token, order_no, find_ok)
    \/ \E token \in AuthTokens, order_no \in LogOrderNos, find_ok \in BOOLEAN :
            GetOrderLogs(token, order_no, find_ok)
    \/ \E token \in AuthTokens, find_ok \in BOOLEAN : GetUserShipments(token, find_ok)
    \/ \E token \in AuthTokens, order_no \in LogOrderNos, find_ok \in BOOLEAN :
            GetShipmentByOrderNo(token, order_no, find_ok)
    \/ \E token \in AuthTokens, status_filter \in StatusFilters, email \in EmailFilters,
          find_ok \in BOOLEAN :
            GetAllShipments(token, status_filter, email, find_ok)

SpecAuth == Init /\ [][NextAuth]_vars

\* ---- the account collections under concurrent signups
\* e-mails a signup payload can carry: two spellings of one address, and another
ConcEmails == {E_a, E_B, Lower(E_B)}

\* names an admin signup payload can carry: a plain one, and one that is also
\* the e-mail of a user
ConcNames == {N_root, Lower(E_B)}

NextSignup ==
    \/ \E p \in SignupProcs, email \in ConcEmails : SignupFind(p, email)
    \/ \E p \in SignupProcs, insert_ok \in BOOLEAN : SignupInsert(p, insert_ok)
    \/ \E p \in SignupProcs, name \in ConcNames : AdminSignupFind(p, name)
    \/ \E p \in SignupProcs, insert_ok \in BOOLEAN : AdminSignupInsert(p, insert_ok)

SpecSignup == Init /\ [][NextSignup]_vars

\* ---- the insurance calculator on its own
\* declared values lie at most this far from a bracket boundary
MaxOffset == 6

\* the values the brackets of calculate_insurance_fee compare with
BracketBounds == {0, 100000, 200000, 500000, 1000000, 2000000, 5000000, 10000000}

\* the declared values a caller can pass
ShipmentValues ==
    {b + d : b \in BracketBounds, d \in (0 - MaxOffset)..MaxOffset} \cup {10000}

NextInsurance ==
    \E shipment_value \in ShipmentValues : CalculateInsuranceFee(shipment_value)

SpecInsurance == Init /\ [][NextInsurance]_vars

\* ------------------------------------------------------------------- claims
\* the make_order requests that hold a sequencer value
Sequenced == {p \in Procs : req[p].pc \in {"insert", "fetch"}}

\* C1: the seq values that concurrent make_order requests obtain from the
\* find-and-increment are pairwise distinct: no two requests in flight hold the
\* same value, and no value was handed out twice
C1_SeqValuesDistinct ==
    /\ \A p, q \in Sequenced : p # q => req[p].order_num # req[q].order_num
    /\ \A i, j \in DOMAIN minted : i # j => minted[i].seq # minted[j].seq

\* two requests passed the sequencer before either inserted its order
C1_Witness ==
    \A p \in Procs : req[p].pc = "insert"

\* C2: the counter never decreases, every sequencer value is greater than all
\* handed out before it, and no order number is ever used twice, whatever was
\* deleted in between
C2_SeqMonotonic ==
    /\ [][CounterSeq(counters') >= CounterSeq(counters)]_vars
    /\ [](/\ \A i, j \in DOMAIN minted :
                i < j => /\ minted[i].seq < minted[j].seq
                         /\ minted[i].order_no # minted[j].order_no
          /\ \A i \in DOMAIN minted : minted[i].seq <= CounterSeq(counters)
          /\ \A o1, o2 \in orders : o1.order_no = o2.order_no => o1 = o2)

\* the first order was stored and deleted, and the number 2 was handed out
C2_Witness ==
    /\ orders = {}
    /\ next_id = 2
    /\ \E p \in Procs : req[p].pc = "insert" /\ req[p].order_num = 2

\* C3: when the order insert fails after the counter was incremented, the
\* request answers 500, stores no order and leaves the counter where it is; and
\* a sequencer value, once handed out, is never handed out again
C3_FailedInsertBurnsSeq ==
    /\ [][\A p \in Procs :
            req[p].pc = "insert" /\ req'[p].pc = "idle" =>
                /\ last'.op = "make_order" /\ last'.code = 500
                /\ orders' = orders
                /\ counters' = counters
                /\ \A o \in orders' : o.order_no # req[p].order_no]_vars
    /\ [][\A p \in Procs :
            req[p].pc = "inc" /\ req'[p].pc = "insert" =>
                \A m \in Range(minted) : req'[p].order_num # m.seq]_vars

\* no insert ever succeeded, the number 1 was lost to a failed insert, and a
\* later request holds the number 2
C3_Witness ==
    /\ next_id = 1
    /\ Len(minted) = 2
    /\ last.op = "make_order" /\ last.code = 500
    /\ Cardinality(Sequenced) = 1
    /\ \A p \in Sequenced : req[p].order_num = 2

\* C4: when the increment of the counter raises, make_order answers 500 and
\* changes nothing in the database; and every order number, in flight or stored,
\* was made from a value the counter was incremented to
C4_FailedIncrementFailsOrder ==
    /\ [][\A p \in Procs :
            req[p].pc = "inc" /\ req'[p].pc = "idle" =>
                /\ last'.op = "make_order" /\ last'.code = 500
                /\ UNCHANGED stored
                /\ UNCHANGED minted]_vars
    /\ [](/\ \A p \in Sequenced :
                /\ req[p].order_num \in 1..CounterSeq(counters)
                /\ \E m \in Range(minted) : m.order_no = req[p].order_no
          /\ \A o \in orders : \E m \in Range(minted) : m.order_no = o.order_no)

\* a request failed at the sequencer step while the counter had no document
C4_Witness ==
    /\ last.op = "make_order" /\ last.code = 500
    /\ counters = {}
    /\ users # EmptyBag

\* C5: make_order inserts every order with the status pending, and the status of
\* every stored order is always one of pending, approved, rejected
C5_StatusEnumerated ==
    /\ [][\A o \in orders' :
            (\A old \in orders : old.id # o.id) => o.status = S_pending]_vars
    /\ [](\A o \in orders : o.status \in {S_pending, S_approved, S_rejected})

\* one order was rejected while another one is still as make_order stored it
C5_Witness ==
    \E o1, o2 \in orders : o1.status = S_rejected /\ o2.status = S_pending

\* a step in which approve_order answered
ApproveAnswered == last' # last /\ last'.op = "approve_order"

\* C6: approve_order sets the status of the order it names to the lowercase of
\* the requested status whatever the status was before, and it answers 404 only
\* when no stored order has the number and 400 only for a status whose lowercase
\* is not pending, approved or rejected
C6_TransitionUnconditional ==
    /\ [][ApproveAnswered /\ last'.code = 200 =>
            \A o \in MatchingOrders(orders, last'.order_no) :
                /\ last'.prev \in {S_pending, S_approved, S_rejected}
                /\ \E n \in orders' :
                    /\ n.id = o.id
                    /\ n.status = Lower(last'.status)]_vars
    /\ [][ApproveAnswered /\ last'.code = 404 =>
            MatchingOrders(orders, last'.order_no) = {}]_vars
    /\ [](last.op = "approve_order" /\ last.code = 400 =>
            Lower(last.status) \notin {S_pending, S_approved, S_rejected})
    /\ [](last.op = "approve_order" => last.code \in {200, 400, 401, 404, 500})

\* an approved order was set back to pending
C6_Witness ==
    /\ last.op = "approve_order" /\ last.code = 200
    /\ last.prev = S_approved
    /\ last.status = S_Pending
    /\ \E o \in orders : o.order_no = last.order_no /\ o.status = S_pending

\* C7: an approve_order that fails changes nothing in the database; a status
\* whose lowercase is not pending, approved or rejected is answered 400 before
\* any order is looked up, and an order number that matches no order is never
\* answered 200 and creates no order
C7_FailedApproveChangesNothing ==
    /\ [][ApproveAnswered /\ last'.code # 200 => UNCHANGED stored]_vars
    /\ [][ApproveAnswered =>
            /\ {o.id : o \in orders'} = {o.id : o \in orders}
            /\ UNCHANGED <<users, admins, counters, order_logs, shipping_rates>>]_vars
    /\ [][ApproveAnswered /\ last'.code = 200 =>
            MatchingOrders(orders, last'.order_no) # {}]_vars
    /\ [](last.op = "approve_order" /\ last.code \in {200, 404} =>
            Lower(last.status) \in {S_pending, S_approved, S_rejected})

\* an order number that matches no order was answered 404 while orders are stored
C7_Witness ==
    /\ last.op = "approve_order" /\ last.code = 404
    /\ orders # {}

\* C8: approve_order accepts a valid status in any letter case and stores it in
\* lowercase
C8_StatusStoredLowercase ==
    /\ last.op = "approve_order" /\ last.code = 400 =>
            last.status \notin {S_Pending, S_approved, S_Rejected}
    /\ last.op = "approve_order" /\ last.code = 200 =>
            \A o \in orders : o.order_no = last.order_no =>
                /\ last.status = S_Pending => o.status = S_pending
                /\ last.status = S_approved => o.status = S_approved
                /\ last.status = S_Rejected => o.status = S_rejected

\* the status "Rejected" was accepted and the order holds "rejected"
C8_Witness ==
    /\ last.op = "approve_order" /\ last.code = 200
    /\ last.status = S_Rejected
    /\ \E o \in orders : o.order_no = last.order_no /\ o.status = S_rejected

\* C9: after every successful approve_order the activity ledger holds an entry
\* of type status_changed for the order
C9_TransitionLogged ==
    last.op = "approve_order" /\ last.code = 200 =>
        \E i \in DOMAIN order_logs :
            /\ order_logs[i].order_no = last.order_no
            /\ order_logs[i].activity_type = "status_changed"

\* C10: the e-mail service is called after every successful make_order and after
\* every approve_order that sets approved or rejected, and never for pending
C10_NotificationSent ==
    /\ last.op = "make_order" /\ last.code = 201 =>
            \E i \in DOMAIN sent_emails : sent_emails[i].status = S_pending
    /\ ( /\ last.op = "approve_order" /\ last.code = 200
         /\ Lower(last.status) \in {S_approved, S_rejected} )
        => \E i \in DOMAIN sent_emails :
                /\ sent_emails[i].order_no = last.order_no
                /\ sent_emails[i].status = Lower(last.status)
    /\ ~(\E i \in DOMAIN sent_emails :
            /\ sent_emails[i].kind = "approval"
            /\ sent_emails[i].status = S_pending)

\* C11: a stored order changes only in a step of approve_order that answers 200
\* for its order_no, and then only in its status; it disappears only in a step
\* of delete_all_orders or delete_order_by_id; approve_order changes at most one
\* order; every other step leaves every stored order as it is
C11_OrdersFrame ==
    /\ [][\A o \in orders :
            \/ o \in orders'
            \/ /\ o.id \notin {n.id : n \in orders'}
               /\ \/ \E token \in Tokens : DeleteAllOrders(token)
                  \/ \E token \in Tokens, order_id \in OrderIdInputs :
                        DeleteOrderById(token, order_id)
            \/ /\ ApproveAnswered
               /\ last'.code = 200
               /\ o.order_no = last'.order_no
               /\ [o EXCEPT !.status = Lower(last'.status)] \in orders']_vars
    /\ [][ApproveAnswered => Cardinality(orders \ orders') <= 1]_vars
    /\ [][\A n \in orders' :
            n \notin orders /\ n.id \notin {o.id : o \in orders} =>
                /\ \E p \in Procs : MakeOrderInsert(p)
                /\ orders \subseteq orders']_vars

\* approve_order approved one of two stored orders and the other one is still
\* as make_order stored it
C11_Witness ==
    /\ last.op = "approve_order" /\ last.code = 200
    /\ last.status = S_approved
    /\ \E o1, o2 \in orders :
        /\ o1.order_no = last.order_no /\ o1.status = S_approved
        /\ o2.order_no # last.order_no /\ o2.status = S_pending

PriceAnswered == last' # last /\ last'.op = "get_price_for_zone_weight"

\* the tier list of the zone, whatever the letter case of the zone code: the
\* rates of the document db["shipping_rates"] returns for it, none when it
\* returns no document
RatesOfZone(zone) ==
    LET i == FindZone(shipping_rates, Upper(zone))
    IN  IF i = 0 THEN {} ELSE {shipping_rates[i].rates}

\* the weight the tier selection policy picks among the weights ws for the
\* requested weight (in half kilograms): the smallest one that is not less, or
\* the largest one when every weight is less
PolicyWeight(ws, weight) ==
    LET fits == {w \in ws : 2 * w >= weight}
    IN  IF fits # {}
        THEN CHOOSE w \in fits : \A v \in fits : w <= v
        ELSE CHOOSE w \in ws : \A v \in ws : v <= w

\* C12: for a zone that is stored with at least one tier and a weight above 0,
\* get_price_for_zone_weight answers 200 with the tier the policy picks: its
\* weight is the policy's weight and its price is the formatted price of the
\* tier of that weight, whichever position the tier list stores it at
C12_PriceResolved ==
    [][PriceAnswered /\ last'.weight > 0 =>
        \A rates \in RatesOfZone(last'.zone) :
            rates # << >> =>
                /\ last'.code = 200
                /\ last'.matched_weight =
                        PolicyWeight({rates[i].weight : i \in DOMAIN rates}, last'.weight)
                /\ \A i \in DOMAIN rates :
                        rates[i].weight = last'.matched_weight =>
                            /\ rates[i].price.kind = "float"
                            /\ last'.price = format_price(rates[i].price)]_vars

AddRatesFinishes(p) == rate_req[p].pc = "write" /\ rate_req'[p].pc = "idle"

\* the documents stored for the zone of the payload rate
DocsOfZone(docs, rate) == {i \in DOMAIN docs : docs[i].zone = rate.zone}

\* C14: add_rates applied again with the payload it has just stored changes
\* nothing: when the call found the zone and the zone's document equals the
\* payload, the collection is the same before and after the call, and a zone
\* that had a single document still has a single document
C14_AddRatesIdempotent ==
    [][\A p \in DOMAIN rate_req :
        ( /\ AddRatesFinishes(p)
          /\ rate_req[p].existing
          /\ FindZone(shipping_rates, rate_req[p].rate.zone) # 0
          /\ shipping_rates[FindZone(shipping_rates, rate_req[p].rate.zone)] = rate_req[p].rate )
        => /\ shipping_rates' = shipping_rates
           /\ Cardinality(DocsOfZone(shipping_rates, rate_req[p].rate)) = 1
                => Cardinality(DocsOfZone(shipping_rates', rate_req[p].rate)) = 1]_vars

\* the zone's table is stored once and a second call with the same payload has
\* found the zone and is about to write
C14_Witness ==
    \E p \in DOMAIN rate_req :
        /\ rate_req[p].pc = "write"
        /\ rate_req[p].existing
        /\ rate_req[p].rate.rates = Tiers_two
        /\ Cardinality(DocsOfZone(shipping_rates, rate_req[p].rate)) = 1
        /\ \E i \in DOMAIN shipping_rates : shipping_rates[i] = rate_req[p].rate
        /\ \A q \in DOMAIN rate_req : q # p => rate_req[q].pc = "idle"

\* C15: when add_rates changes the table of a zone that is stored, every
\* document of that zone then holds exactly the currency, unit and tiers of the
\* payload, and the documents of all other zones are as before
C15_AddRatesOverwrites ==
    [][\A p \in DOMAIN rate_req :
        ( /\ AddRatesFinishes(p)
          /\ rate_req[p].existing
          /\ shipping_rates' # shipping_rates )
        => /\ Len(shipping_rates') = Len(shipping_rates)
           /\ \A i \in DOMAIN shipping_rates :
                IF shipping_rates[i].zone = rate_req[p].rate.zone
                THEN shipping_rates'[i] = rate_req[p].rate
                ELSE shipping_rates'[i] = shipping_rates[i]]_vars

\* C16: every stored zone code is uppercase and no two documents have the same
\* zone
C16_ZonesUniqueUppercase ==
    /\ \A i \in DOMAIN shipping_rates :
            shipping_rates[i].zone = Upper(shipping_rates[i].zone)
    /\ \A i, j \in DOMAIN shipping_rates :
            shipping_rates[i].zone = shipping_rates[j].zone => i = j

\* C17: no stored rate table has two tiers of the same weight
C17_TiersUniqueByWeight ==
    \A d \in DOMAIN shipping_rates :
        \A i, j \in DOMAIN shipping_rates[d].rates :
            shipping_rates[d].rates[i].weight = shipping_rates[d].rates[j].weight => i = j

\* the bracket table: the inclusive upper bound of each bracket and its fee
BracketTable ==
    {<<100000, 5000>>, <<200000, 7500>>, <<500000, 10000>>, <<1000000, 20000>>,
     <<2000000, 30000>>, <<5000000, 120000>>}

\* the fee of the first bracket of the table whose upper bound is not below v,
\* and 240000 above every bracket
TableFee(v) ==
    LET fits == {b \in BracketTable : v <= b[1]}
    IN  IF fits = {}
        THEN 240000
        ELSE (CHOOSE b \in fits : \A c \in fits : b[1] <= c[1])[2]

\* C18: calculate_insurance_fee returns the fee of the bracket table with
\* inclusive upper bounds for every declared value, 5000 for a value of 0 or
\* less, and in particular fee(100000) = 5000, fee(100001) = 7500,
\* fee(10000000) = 240000, fee(10000001) = 240000 and fee(0) = 5000
C18_BracketFee ==
    last.op = "calculate_insurance_fee" =>
        /\ last.fee = TableFee(last.shipment_value)
        /\ last.shipment_value <= 0 => last.fee = 5000
        /\ last.shipment_value = 100000 => last.fee = 5000
        /\ last.shipment_value = 100001 => last.fee = 7500
        /\ last.shipment_value = 10000000 => last.fee = 240000
        /\ last.shipment_value = 10000001 => last.fee = 240000

\* the fee was computed for the upper bound of the 120000 bracket
C18_Witness ==
    /\ last.op = "calculate_insurance_fee"
    /\ last.shipment_value = 5000000
    /\ last.fee = 120000

\* C19: the insurance fee is the configured percentage of the declared value
\* and never less than the configured minimum fee, and the minimum fee for a
\* value of 0 or less: with 2% and 500, fee(10000) = 500 and fee(100000) = 2000
C19_PercentageFee ==
    last.op = "calculate_insurance_fee" =>
        IF last.shipment_value <= 0
        THEN last.fee = MINIMUM_INSURANCE_FEE
        ELSE IF last.shipment_value * INSURANCE_RATE >= MINIMUM_INSURANCE_FEE * 100
        THEN last.fee * 100 = last.shipment_value * INSURANCE_RATE
        ELSE last.fee = MINIMUM_INSURANCE_FEE

\* ---------------------------------------------------------------- C21
\* a ledger query has just answered with a page
LogsAnswered ==
    /\ last' # last
    /\ last'.op \in {"admin_get_order_logs", "get_order_logs"}
    /\ last'.code = 200

\* how often the entry e occurs in the sequence q
Occurrences(q, e) == Cardinality({i \in DOMAIN q : q[i] = e})

\* C21: a ledger query for an order number returns exactly the ledger entries
\* of that order number (each as often as the ledger holds it), the latest
\* timestamp first, and its total is the number of entries it returns.
C21_LedgerQuery ==
    [][LogsAnswered =>
        LET page == last'.logs
            order_no == last'.order_no
        IN  /\ \A k \in DOMAIN page : page[k].order_no = order_no
            /\ \A i \in DOMAIN order_logs :
                    order_logs[i].order_no = order_no =>
                        Occurrences(page, order_logs[i])
                            = Occurrences(order_logs, order_logs[i])
            /\ \A k \in DOMAIN page : \E i \in DOMAIN order_logs : order_logs[i] = page[k]
            /\ \A k, l \in DOMAIN page :
                    k < l => page[k].timestamp >= page[l].timestamp
            /\ last'.total = Len(page)]_vars

\* a page of two entries came back, the later one first although it was logged
\* first, while the ledger also holds an entry of another order
C21_Witness ==
    /\ last.op = "admin_get_order_logs"
    /\ last.code = 200
    /\ last.total = 2
    /\ last.logs[1].timestamp > last.logs[2].timestamp
    /\ Len(order_logs) = 3
    /\ \E i, j \in DOMAIN order_logs :
            /\ i < j
            /\ order_logs[i] = last.logs[1]
            /\ order_logs[j] = last.logs[2]
    /\ \E i \in DOMAIN order_logs : order_logs[i].order_no # last.order_no

\* ---------------------------------------------------------------- C22
\* the stored orders of a number whose sender is the user
OwnOrders(order_no, user_email) ==
    {o \in orders : o.order_no = order_no /\ o.sender_email = user_email}

\* C22: get_order_logs answers a registered user who asks for an order whose
\* sender e-mail is their own with that order's ledger entries, and answers
\* 404 when the order is another user's (a failing read apart).
C22_OwnOrderLogs ==
    [][(/\ last' # last
        /\ last'.op = "get_order_logs"
        /\ last'.code \notin {401, 500})
        => LET user == Lower(last'.token)
               order_no == last'.order_no
           IN  /\ OwnOrders(order_no, user) # {} =>
                        /\ last'.code = 200
                        /\ last'.logs \in FindOrderLogs(order_logs, order_no)
               /\ (/\ OwnOrders(order_no, user) = {}
                   /\ \E o \in orders : o.order_no = order_no) =>
                        last'.code = 404]_vars

\* ---------------------------------------------------------------- C23
\* make_order has just answered a request at its sender e-mail
SenderAnswered ==
    /\ last' # last
    /\ last'.op = "make_order"
    /\ last'.code \in {400, 404}

\* C23: a make_order of a registered user goes on to the counter only with a
\* sender e-mail that passes the format check and is in users; otherwise it is
\* answered 400 when the e-mail fails the format check and 404 when it passes
\* it, and neither answer inserts an order or moves the counter.
C23_SenderRejected ==
    [][/\ SenderAnswered =>
            /\ last'.code = 400 <=> ~is_valid_email(last'.sender_email)
            /\ (last'.code = 404 /\ last'.lookup_ok) =>
                    ~BagIn(Lower(last'.sender_email), users)
            /\ UNCHANGED <<stored, next_id, minted, req>>
       /\ \A p \in Procs :
            (req[p].pc = "idle" /\ req'[p].pc = "inc") =>
                /\ is_valid_email(req'[p].sender_email)
                /\ BagIn(Lower(req'[p].sender_email), users)
                /\ UNCHANGED <<stored, next_id, minted>>
       /\ \A p \in Procs :
            (req[p].pc = "idle" /\ req'[p].pc # "idle") => req'[p].pc = "inc"]_vars

\* a well-formed sender e-mail that is not registered was answered 404 after
\* an order had been made
C23_Witness ==
    /\ last.op = "make_order"
    /\ last.code = 404
    /\ last.lookup_ok
    /\ is_valid_email(last.sender_email)
    /\ ~BagIn(Lower(last.sender_email), users)
    /\ orders # {}
    /\ CounterSeq(counters) = Cardinality(orders)

\* ---------------------------------------------------------------- C24
\* the subject of the token is the name of a stored admin
RegisteredAdmin(token) == \E name \in BagToSet(admins) : name = token

\* the subject of the token is, in lowercase, the e-mail of a stored user
RegisteredUser(token) == \E email \in BagToSet(users) : email = Lower(token)

\* the reads that answer admins only, and users only; their responses keep
\* the token
AdminReads == {"admin_get_order_logs", "get_all_shipments"}

UserReads == {"get_order_logs", "get_user_shipments", "get_shipment_by_order_no"}

\* a step that takes effect: it changes what is stored, starts or advances a
\* request, sends an e-mail, or answers approve_order or make_order with
\* anything but 401
TakesEffect ==
    \/ stored' # stored
    \/ req' # req
    \/ rate_req' # rate_req
    \/ minted' # minted
    \/ sent_emails' # sent_emails
    \/ /\ last' # last
       /\ last'.op \in {"approve_order", "make_order"}
       /\ last'.code # 401

\* C24: no step that takes effect is an admin operation called with a token
\* whose subject is not a registered admin, or a user operation called with a
\* token whose subject is not a registered user; and a read that keeps its
\* token answers 401 exactly to the subjects that are not registered for it,
\* changing nothing.
C24_AuthGuards ==
    [][/\ TakesEffect =>
            \A token \in AuthTokens :
                /\ ~RegisteredAdmin(token) =>
                    /\ \A order_no \in OrderNoInputs, status \in AuthStatuses :
                            ~ApproveOrder(token, order_no, status)
                    /\ ~DeleteAllOrders(token)
                    /\ \A order_id \in OrderIdInputs : ~DeleteOrderById(token, order_id)
                    /\ \A p \in RateProcs, rate \in RatePayloads :
                            ~AddRatesFind(p, token, rate)
                /\ ~RegisteredUser(token) =>
                    /\ \A p \in AuthProcs, sender_email \in SenderEmails :
                            ~MakeOrderStart(p, token, sender_email)
                    /\ \A order_no \in LogOrderNos, activity_type \in ActivityTypes,
                          utcnow \in Days :
                            ~LogOrderActivity(token, order_no, activity_type, utcnow)
       /\ (last' # last /\ last'.op \in AdminReads) =>
            /\ UNCHANGED stored
            /\ last'.code = 401 <=> ~RegisteredAdmin(last'.token)
       /\ (last' # last /\ last'.op \in UserReads) =>
            /\ UNCHANGED stored
            /\ last'.code = 401 <=> ~RegisteredUser(last'.token)]_vars

\* a registered user's token was turned away by approve_order while an admin
\* is registered and a pending order is stored
C24_Witness ==
    /\ last.op = "approve_order"
    /\ last.code = 401
    /\ admins # EmptyBag
    /\ users # EmptyBag
    /\ \E o \in orders : o.status = S_pending

\* ---------------------------------------------------------------- C25
\* C25: a make_order that meets a storage failure is answered 500, whether the
\* failure is in the lookup of the sender e-mail, in the increment of the
\* counter or in the insert of the order.
C25_StorageFailureIs500 ==
    [][(last' # last /\ last'.op = "make_order") =>
        /\ ("lookup_ok" \in DOMAIN last' /\ ~last'.lookup_ok) => last'.code = 500
        /\ \A p \in Procs :
            (req[p].pc \in {"inc", "insert"} /\ req'[p].pc = "idle") =>
                last'.code = 500]_vars

\* ---------------------------------------------------------------- C26
\* C26: no two stored users share an e-mail and no two stored admins share a
\* name, whatever the interleaving of the signups; and a signup whose key is
\* already stored adds nothing.
C26_AccountsUnique ==
    /\ [](/\ \A email \in BagToSet(users) : CopiesIn(email, users) = 1
          /\ \A name \in BagToSet(admins) : CopiesIn(name, admins) = 1)
    /\ [][\A p \in SignupProcs :
            /\ \A email \in ConcEmails :
                    (SignupFind(p, email) /\ BagIn(Lower(email), users)) =>
                        UNCHANGED <<users, signup_req>>
            /\ \A name \in ConcNames :
                    (AdminSignupFind(p, name) /\ BagIn(name, admins)) =>
                        UNCHANGED <<admins, signup_req>>]_vars

\* ---------------------------------------------------------------- C27
\* C27: an add_rates call that found its zone stored succeeds whatever its
\* payload, a payload equal to the stored table included: it is answered 201
\* and never 400 'Failed to update rates'.
C27_UpdateAlwaysSucceeds ==
    [][\A p \in DOMAIN rate_req :
        (AddRatesFinishes(p) /\ rate_req[p].existing) =>
            AddRatesCode(shipping_rates, rate_req[p].rate, TRUE) = 201]_vars

\* ---------------------------------------------------------------- C28
\* a shipment read has just answered
ShipmentsAnswered(op) == last' # last /\ last'.op = op

C29_OrdersBelongToSubmitter ==
    \A o \in orders : \A i \in DOMAIN minted :
        minted[i].order_no = o.order_no =>
            o \in Find(orders, UserShipmentsFilter(minted[i].user))

\* ---------------------------------------------------------------- C30
\* the tokens create_access_token has signed for users (subject: the stored
\* e-mail) and for admins (subject: the stored name)
UserTokens == BagToSet(users)

AdminTokens == BagToSet(admins)

\* C30: no token issued to a user is accepted by get_current_admin, and no
\* token issued to an admin is accepted by get_current_user.
C30_CredentialsSeparate ==
    /\ \A token \in UserTokens : get_current_admin(token) = NoStr
    /\ \A token \in AdminTokens : get_current_user(token) = NoStr

====
